---- MODULE Spec2Model ----
(***************************************************************************)
(* Timelytics delivery-time estimator (src/timelytics_app.py).             *)
(*                                                                         *)
(* Numbers.  Hours are carried in tenths of an hour (the estimator rounds  *)
(* to one decimal, so every value it returns is a whole number of tenths). *)
(* An unrounded product is carried as an exact fraction [num, den].        *)
(* The process-wide numpy generator is a state variable: a full-period     *)
(* congruential generator over RngMod states whose draw is mapped onto a   *)
(* grid of JitterSteps+1 equally spaced values of [0.9, 1.1], both ends    *)
(* included.  The generator is never seeded by the program, so every       *)
(* generator state is an initial state.                                    *)
(***************************************************************************)
EXTENDS Integers, Sequences, FiniteSets, TLC

VARIABLES rng, op, args, ret, sample_data, prev_data

vars == <<rng, op, args, ret, sample_data, prev_data>>

(* ------------------------------ bounds -------------------------------- *)

\* number of bits of the modelled generator state
RngBits == 6
\* the jitter grid: 0.9 + 0.2 * k / JitterSteps for k in 0..JitterSteps
JitterSteps == 20
\* largest hours value handed to the formatter and the insight rules
MaxHours == 100

RngMod == 2 ^ RngBits

(* --------------------------- rate tables ------------------------------ *)

\* a value that is not a number of hours
None == "None"

\* create_prediction_model: base delivery hours per category
category_times ==
    [c \in {"Electronics", "Clothing", "Books", "Home & Garden",
            "Sports", "Beauty", "Toys"} |->
        CASE c = "Electronics"   -> 48
          [] c = "Clothing"      -> 36
          [] c = "Books"         -> 24
          [] c = "Home & Garden" -> 72
          [] c = "Sports"        -> 48
          [] c = "Beauty"        -> 36
          [] c = "Toys"          -> 48]

\* create_prediction_model: location multipliers, in tenths (0.8, 1.0, 1.3)
location_multipliers ==
    [l \in {"Urban", "Suburban", "Rural"} |->
        CASE l = "Urban"    -> 8
          [] l = "Suburban" -> 10
          [] l = "Rural"    -> 13]

\* a table in which Express costs as much time as Standard
shipping_multipliers_express_slow ==
    [s \in {"Overnight", "Express", "Standard", "Economy"} |->
        CASE s = "Overnight" -> 3
          [] s = "Express"   -> 10
          [] s = "Standard"  -> 10
          [] s = "Economy"   -> 14]

\* create_prediction_model: shipping multipliers, in tenths (0.3, 0.6, 1.0, 1.4)
shipping_multipliers ==
    [s \in {"Overnight", "Express", "Standard", "Economy"} |->
        CASE s = "Overnight" -> 3
          [] s = "Express"   -> 6
          [] s = "Standard"  -> 10
          [] s = "Economy"   -> 14]

(* ------------------------- arithmetic helpers ------------------------- *)

\* builtin max
Max(a, b) == IF a >= b THEN a ELSE b

\* the fraction is cut off instead of rounded
round_truncating(num, den) == num \div den

\* builtin round(x, 1) on x = num/den hours, as a number of tenths of an hour
\* when called with num = 10 * numerator: nearest integer, ties to even
round(num, den) ==
    LET q == num \div den
        r == num % den
    IN  IF 2 * r < den THEN q
        ELSE IF 2 * r > den THEN q + 1
        ELSE IF q % 2 = 0 THEN q ELSE q + 1

(* ------------------------- the random source -------------------------- *)

\* the generator state after one draw
NextRng(r) == (5 * r + 3) % RngMod

\* np.random.uniform(0.9, 1.1) read off generator state r, as the exact
\* fraction (9 * JitterSteps + 2 * k) / (10 * JitterSteps)
uniform(r) ==
    LET k == (r * (JitterSteps + 1)) \div RngMod
    IN  [num |-> 9 * JitterSteps + 2 * k, den |-> 10 * JitterSteps]

(* ----------------------------- Estimator ------------------------------ *)

\* dict.get(key, default)
Get(d, key, default) == IF key \in DOMAIN d THEN d[key] ELSE default

\* an unknown category falls back to 36 hours
base_time_default36(category) == Get(category_times, category, 36)

\* line 88: base_time = category_times.get(category, 48)
base_time(category) == Get(category_times, category, 48)

\* outcome of a call: a returned value or a raised exception, with the
\* generator state the call leaves behind
Return(v, r) == [kind |-> "return", value |-> v, rng |-> r]
Raise(exc, key, r) == [kind |-> "raise", exc |-> exc, key |-> key, rng |-> r]

\* the result reported in days, without the two-hour floor
predict_in_days(category, location, shipping, r) ==
    IF location \notin DOMAIN location_multipliers
    THEN Raise("KeyError", location, r)
    ELSE IF shipping \notin DOMAIN shipping_multipliers
    THEN Raise("KeyError", shipping, r)
    ELSE LET v == uniform(r)
             num == base_time(category) * location_multipliers[location]
                       * shipping_multipliers[shipping] * v.num
             den == 100 * v.den
         IN  Return(round(10 * num, 24 * den), NextRng(r))

\* the multiplier lookups default to 1.0 instead of raising
predict_defaulting(category, location, shipping, r) ==
    LET v == uniform(r)
        num == base_time(category) * Get(location_multipliers, location, 10)
                  * Get(shipping_multipliers, shipping, 10) * v.num
        den == 100 * v.den
    IN  Return(Max(20, round(10 * num, den)), NextRng(r))

\* the variation is drawn before the multipliers are looked up
predict_draw_first(category, location, shipping, r) ==
    LET v == uniform(r)
    IN  IF location \notin DOMAIN location_multipliers
        THEN Raise("KeyError", location, NextRng(r))
        ELSE IF shipping \notin DOMAIN shipping_multipliers
        THEN Raise("KeyError", shipping, NextRng(r))
        ELSE LET num == base_time(category) * location_multipliers[location]
                           * shipping_multipliers[shipping] * v.num
                 den == 100 * v.den
             IN  Return(Max(20, round(10 * num, den)), NextRng(r))

\* predict_delivery_time(category, location, shipping) run from generator
\* state r.  The subscripts of line 91 are evaluated left to right and raise
\* KeyError before line 94 draws the variation.
predict_delivery_time(category, location, shipping, r) ==
    IF location \notin DOMAIN location_multipliers
    THEN Raise("KeyError", location, r)
    ELSE IF shipping \notin DOMAIN shipping_multipliers
    THEN Raise("KeyError", shipping, r)
    ELSE LET \* line 91, in hundredths of an hour
             predicted_time == base_time(category)
                                 * location_multipliers[location]
                                 * shipping_multipliers[shipping]
             \* line 94
             variation == uniform(r)
             \* line 95, the exact fraction num/den hours
             num == predicted_time * variation.num
             den == 100 * variation.den
             \* line 98
         IN  Return(Max(20, round(10 * num, den)), NextRng(r))

(* ----------------------------- Formatter ------------------------------ *)

\* int(x) of a non-negative number of tenths of an hour, in whole hours
int(tenths) == tenths \div 10

\* every day count takes the plural, also exactly one
hours_to_readable_plural_from_one(hours) ==
    IF hours < 240
    THEN ToString(int(hours)) \o " hours"
    ELSE LET days == hours \div 240
             remaining_hours == int(hours % 240)
         IN  IF remaining_hours = 0
             THEN ToString(days) \o " day" \o (IF days >= 1 THEN "s" ELSE "")
             ELSE ToString(days) \o " day" \o (IF days >= 1 THEN "s" ELSE "")
                    \o " and " \o ToString(remaining_hours) \o " hour"
                    \o (IF remaining_hours > 1 THEN "s" ELSE "")

\* hours_to_readable(hours), hours in tenths of an hour
hours_to_readable(hours) ==
    IF hours < 240
    THEN ToString(int(hours)) \o " hours"
    ELSE LET \* int(hours // 24): the floor division is a whole number already
             days == hours \div 240
             remaining_hours == int(hours % 240)
         IN  IF remaining_hours = 0
             THEN ToString(days) \o " day" \o (IF days > 1 THEN "s" ELSE "")
             ELSE ToString(days) \o " day" \o (IF days > 1 THEN "s" ELSE "")
                    \o " and " \o ToString(remaining_hours) \o " hour"
                    \o (IF remaining_hours > 1 THEN "s" ELSE "")

(* --------------------------- InsightEngine ---------------------------- *)

\* the advisory strings, without their leading pictographs
overnight_note == "Overnight shipping selected - fastest delivery option!"
economy_note ==
    "Economy shipping selected - budget-friendly option with longer delivery time"
rural_note == "Rural delivery may take longer due to remote location"
urban_note == "Urban delivery benefits from faster logistics networks"
home_garden_note ==
    "Large items may require special handling and longer processing time"
books_note == "Books are typically lightweight and process quickly"
extended_note ==
    "Extended delivery time - consider express shipping for faster delivery"
fast_note == "Fast delivery expected - your order will arrive quickly!"

\* the duration thresholds include their end points
get_delivery_insights_inclusive(category, location, shipping, predicted_hours) ==
    LET i1 == IF shipping = "Overnight" THEN <<overnight_note>>
              ELSE IF shipping = "Economy" THEN <<economy_note>> ELSE <<>>
        i2 == IF location = "Rural" THEN Append(i1, rural_note)
              ELSE IF location = "Urban" THEN Append(i1, urban_note) ELSE i1
        i3 == IF category = "Home & Garden" THEN Append(i2, home_garden_note)
              ELSE IF category = "Books" THEN Append(i2, books_note) ELSE i2
    IN  IF predicted_hours >= 720 THEN Append(i3, extended_note)
        ELSE IF predicted_hours <= 240 THEN Append(i3, fast_note) ELSE i3

\* get_delivery_insights(category, location, shipping, predicted_hours),
\* predicted_hours in tenths of an hour
get_delivery_insights(category, location, shipping, predicted_hours) ==
    LET i1 == IF shipping = "Overnight" THEN <<overnight_note>>
              ELSE IF shipping = "Economy" THEN <<economy_note>> ELSE <<>>
        i2 == IF location = "Rural" THEN Append(i1, rural_note)
              ELSE IF location = "Urban" THEN Append(i1, urban_note) ELSE i1
        i3 == IF category = "Home & Garden" THEN Append(i2, home_garden_note)
              ELSE IF category = "Books" THEN Append(i2, books_note) ELSE i2
    IN  IF predicted_hours > 720 THEN Append(i3, extended_note)
        ELSE IF predicted_hours < 240 THEN Append(i3, fast_note) ELSE i3

(* -------------------------- SampleSynthesizer ------------------------- *)

\* lines 102-104
categories == <<"Electronics", "Clothing", "Books", "Home & Garden",
                "Sports", "Beauty", "Toys">>
locations == <<"Urban", "Suburban", "Rural">>

\* the last entry repeats the first
shipping_methods_repeated == <<"Standard", "Express", "Overnight", "Standard">>

shipping_methods == <<"Standard", "Express", "Overnight", "Economy">>

\* the row appended at lines 111-116
Row(category, location, shipping, delivery_time) ==
    [category |-> category, location |-> location, shipping |-> shipping,
     delivery_time |-> delivery_time]

\* the loop state: the rows so far and the generator state
Loop(data, r) == [kind |-> "loop", data |-> data, rng |-> r]

\* lines 109-116: for shipping in shipping_methods, from position k
RECURSIVE shipping_loop(_, _, _, _)
shipping_loop(category, location, k, acc) ==
    IF k > Len(shipping_methods) THEN acc
    ELSE LET shipping == shipping_methods[k]
             res == predict_delivery_time(category, location, shipping, acc.rng)
         IN  IF res.kind = "raise" THEN res
             ELSE shipping_loop(category, location, k + 1,
                      Loop(Append(acc.data,
                                  Row(category, location, shipping, res.value)),
                           res.rng))

\* lines 108-116: for location in locations, from position j
RECURSIVE location_loop(_, _, _)
location_loop(category, j, acc) ==
    IF j > Len(locations) THEN acc
    ELSE LET after == shipping_loop(category, locations[j], 1, acc)
         IN  IF after.kind = "raise" THEN after
             ELSE location_loop(category, j + 1, after)

\* lines 107-116: for category in categories, from position i
RECURSIVE category_loop(_, _)
category_loop(i, acc) ==
    IF i > Len(categories) THEN acc
    ELSE LET after == location_loop(categories[i], 1, acc)
         IN  IF after.kind = "raise" THEN after
             ELSE category_loop(i + 1, after)

\* the shipping method is the middle loop and the location the inner one
RECURSIVE swapped_loop(_, _)
swapped_loop(n, acc) ==
    IF n >= Len(categories) * Len(shipping_methods) * Len(locations) THEN acc
    ELSE LET category == categories[(n \div (Len(shipping_methods) * Len(locations))) + 1]
             shipping == shipping_methods[((n \div Len(locations)) % Len(shipping_methods)) + 1]
             location == locations[(n % Len(locations)) + 1]
             res == predict_delivery_time(category, location, shipping, acc.rng)
         IN  IF res.kind = "raise" THEN res
             ELSE swapped_loop(n + 1,
                      Loop(Append(acc.data,
                                  Row(category, location, shipping, res.value)),
                           res.rng))

generate_sample_data_swapped(r) ==
    LET acc == swapped_loop(0, Loop(<<>>, r))
    IN  IF acc.kind = "raise" THEN acc ELSE Return(acc.data, acc.rng)

\* generate_sample_data() run from generator state r
generate_sample_data(r) ==
    LET acc == category_loop(1, Loop(<<>>, r))
    IN  IF acc.kind = "raise" THEN acc ELSE Return(acc.data, acc.rng)

\* the table generate_sample_data builds from each generator state
sample_table == [r \in 0 .. RngMod - 1 |-> generate_sample_data(r)]

(* ------------------------- inputs of the calls ------------------------ *)

ValidCategories == DOMAIN category_times
ValidLocations == DOMAIN location_multipliers
ValidShipping == DOMAIN shipping_multipliers

\* the strings a caller may pass: the enumerations and one stranger each
AnyCategory == ValidCategories \cup {"Furniture"}
AnyLocation == ValidLocations \cup {"Moon"}
AnyShipping == ValidShipping \cup {"Teleport"}

(* ------------------------------ actions ------------------------------- *)

NoArgs == [category |-> None, location |-> None, shipping |-> None,
           hours |-> None, rng |-> None, submitted |-> FALSE]
NoRet == [kind |-> "none"]

InitCommon ==
    /\ rng \in 0 .. RngMod - 1
    /\ op = "init"
    /\ args = NoArgs
    /\ ret = NoRet
    /\ sample_data = <<>>
    /\ prev_data = <<>>

\* one call of predict_delivery_time by any caller
Predict(category, location, shipping) ==
    LET res == predict_delivery_time(category, location, shipping, rng)
    IN  /\ op' = "predict"
        /\ args' = [NoArgs EXCEPT !.category = category, !.location = location,
                                  !.shipping = shipping, !.rng = rng]
        /\ ret' = [res EXCEPT !.rng = None]
        /\ rng' = res.rng
        /\ UNCHANGED <<sample_data, prev_data>>

Init == InitCommon

Next ==
    \E c \in AnyCategory, l \in AnyLocation, s \in AnyShipping : Predict(c, l, s)

Spec == Init /\ [][Next]_vars

(* ----------------------- the formatter on its own ---------------------- *)

InitReadable ==
    /\ rng = 0
    /\ op = "init"
    /\ \E h \in 0 .. 10 * MaxHours : args = [NoArgs EXCEPT !.hours = h]
    /\ ret = NoRet
    /\ sample_data = <<>>
    /\ prev_data = <<>>

\* hours_to_readable applied to the hours value at hand
HoursToReadable ==
    /\ op' = "hours_to_readable"
    /\ ret' = [kind |-> "return", value |-> hours_to_readable(args.hours)]
    /\ UNCHANGED <<rng, args, sample_data, prev_data>>

NextReadable == HoursToReadable

SpecReadable == InitReadable /\ [][NextReadable]_vars

(* --------------------- the insight rules on their own ------------------ *)

InitInsights ==
    /\ rng = 0
    /\ op = "init"
    /\ \E c \in AnyCategory, l \in AnyLocation, s \in AnyShipping,
          h \in 0 .. 10 * MaxHours :
            args = [NoArgs EXCEPT !.category = c, !.location = l,
                                  !.shipping = s, !.hours = h]
    /\ ret = NoRet
    /\ sample_data = <<>>
    /\ prev_data = <<>>

\* get_delivery_insights applied to the inputs at hand
GetDeliveryInsights ==
    /\ op' = "get_delivery_insights"
    /\ ret' = [kind |-> "return",
               value |-> get_delivery_insights(args.category, args.location,
                                               args.shipping, args.hours)]
    /\ UNCHANGED <<rng, args, sample_data, prev_data>>

NextInsights == GetDeliveryInsights

SpecInsights == InitInsights /\ [][NextInsights]_vars

(* ------------------------ the sample synthesizer ----------------------- *)

\* one call of generate_sample_data; prev_data remembers the table of the
\* call before
GenerateSampleData ==
    LET res == generate_sample_data(rng)
    IN  /\ op' = "generate_sample_data"
        /\ args' = [NoArgs EXCEPT !.rng = rng]
        /\ ret' = [kind |-> res.kind]
        /\ sample_data' = (IF res.kind = "return" THEN res.value ELSE sample_data)
        /\ prev_data' = sample_data
        /\ rng' = res.rng

NextSynth == GenerateSampleData

SpecSynth == InitCommon /\ [][NextSynth]_vars

(* ----------------------------- one rerun ------------------------------- *)

\* main(): the submit path (lines 207-236) when the form was submitted, then
\* the analytics column (line 242).  The select boxes offer the enumerations
\* only.
Main(submitted, category, location, shipping) ==
    LET res == IF submitted
               THEN predict_delivery_time(category, location, shipping, rng)
               ELSE Return(None, rng)
        predicted_hours == res.value
        table == sample_table[res.rng]
    IN  /\ op' = "main"
        /\ args' = [NoArgs EXCEPT !.submitted = submitted, !.category = category,
                                  !.location = location, !.shipping = shipping,
                                  !.rng = rng]
        /\ ret' = IF submitted
                  THEN [kind |-> "return",
                        predicted_hours |-> predicted_hours,
                        readable |-> hours_to_readable(predicted_hours),
                        insights |-> get_delivery_insights(category, location,
                                         shipping, predicted_hours)]
                  ELSE [kind |-> "return"]
        /\ sample_data' = table.value
        /\ rng' = table.rng
        /\ UNCHANGED prev_data

NextMain ==
    \E submitted \in BOOLEAN :
      \E i \in 1 .. Len(categories), j \in 1 .. Len(locations),
         k \in 1 .. Len(shipping_methods) :
        Main(submitted, categories[i], locations[j], shipping_methods[k])

SpecMain == InitCommon /\ [][NextMain]_vars

(* --------------------- claims about the Estimator --------------------- *)

\* the last operation was a call of predict_delivery_time
IsPredict == op = "predict"
ValidTriple ==
    /\ args.category \in ValidCategories
    /\ args.location \in ValidLocations
    /\ args.shipping \in ValidShipping
Abs(x) == IF x >= 0 THEN x ELSE -x

\* C1: for every valid triple and every jitter value, on every call of any
\* sequence of calls, predict_delivery_time returns a value >= 2.0 hours.
C1_AtLeastTwoHours ==
    (IsPredict /\ ValidTriple) => (ret.kind = "return" /\ ret.value >= 20)

\* the smallest estimate: Books, Urban, Overnight at jitter 0.9 gives 5.2
C1_Witness ==
    /\ IsPredict /\ ValidTriple
    /\ args.category = "Books" /\ args.location = "Urban"
    /\ args.shipping = "Overnight"
    /\ uniform(args.rng).num = 9 * JitterSteps
    /\ ret.kind = "return" /\ ret.value = 52

\* C2: with an unrecognized location or shipping method, and any category,
\* the call raises the lookup error and returns no hours value.
C2_UnknownKeyRaises ==
    (IsPredict /\ (args.location \notin ValidLocations
                     \/ args.shipping \notin ValidShipping))
        => /\ ret.kind = "raise"
           /\ ret.exc = "KeyError"
           /\ ret.key = (IF args.location \notin ValidLocations
                         THEN args.location ELSE args.shipping)
           /\ "value" \notin DOMAIN ret

\* an unknown category together with an unknown shipping method
C2_Witness ==
    /\ IsPredict
    /\ args.category = "Furniture" /\ args.location = "Rural"
    /\ args.shipping = "Teleport"
    /\ ret.kind = "raise" /\ ret.key = "Teleport"

\* C3: an unknown category with a valid location and shipping method does
\* not fail and yields exactly the value a 48-hour category yields for the
\* same location, shipping method and jitter.
C3_UnknownCategoryUses48 ==
    (/\ IsPredict
     /\ args.category \notin ValidCategories
     /\ args.location \in ValidLocations
     /\ args.shipping \in ValidShipping)
        => /\ ret.kind = "return"
           /\ \A c \in {"Electronics", "Sports", "Toys"} :
                ret.value = predict_delivery_time(c, args.location,
                                                  args.shipping, args.rng).value
           /\ LET j == uniform(args.rng)
              IN  ret.value = Max(20, round(10 * 48
                                  * location_multipliers[args.location]
                                  * shipping_multipliers[args.shipping] * j.num,
                                  100 * j.den))

C3_Witness ==
    /\ IsPredict
    /\ args.category = "Furniture" /\ args.location = "Suburban"
    /\ args.shipping = "Standard"
    /\ ret.kind = "return" /\ ret.value = 480

\* C7: for a valid triple and jitter j the result is
\* max(2.0, round(base * locFactor * shipFactor * j, 1)): a whole number of
\* tenths, at least 2.0, nearest to the product unless the floor applies;
\* it lies between round(0.9 * raw, 1) and round(1.1 * raw, 1), and for
\* Suburban with Standard within 10% of the category's base hours.
C7_RoundedProduct ==
    (IsPredict /\ ValidTriple)
        => LET base == category_times[args.category]
               raw == base * location_multipliers[args.location]
                           * shipping_multipliers[args.shipping]
               j == uniform(args.rng)
               P == 10 * raw * j.num
               D == 100 * j.den
               v == ret.value
           IN  /\ ret.kind = "return"
               /\ v >= 20
               /\ (v > 20 => 2 * Abs(v * D - P) <= D)
               /\ (v = 20 => 2 * P <= 41 * D)
               /\ round(9 * raw, 100) <= v
               /\ v <= round(11 * raw, 100)
               /\ (args.location = "Suburban" /\ args.shipping = "Standard")
                     => Abs(v - 10 * base) <= base

\* the upper end of the band: Home & Garden, Suburban, Standard at jitter 1.1
C7_Witness ==
    /\ IsPredict /\ ValidTriple
    /\ args.category = "Home & Garden" /\ args.location = "Suburban"
    /\ args.shipping = "Standard"
    /\ uniform(args.rng).num = 11 * JitterSteps
    /\ ret.value = 792

\* C9: a call that fails on the location or the shipping method fails
\* before the jitter is drawn: the random source and every other piece of
\* state are after the call what they were before it.
C9_FailedCallDrawsNothing ==
    [][(op' = "predict" /\ ret'.kind = "raise")
          => (rng' = rng /\ sample_data' = sample_data
                /\ prev_data' = prev_data)]_vars

C9_Witness ==
    /\ IsPredict
    /\ args.location = "Moon"
    /\ ret.kind = "raise"
    /\ rng = args.rng

(* --------------------- claims about the Formatter --------------------- *)

IsReadable == op = "hours_to_readable"

\* a count with its noun, the noun in the plural exactly when the count > 1
Counted(n, noun) == ToString(n) \o " " \o noun \o (IF n > 1 THEN "s" ELSE "")

\* C6: below 24 hours the text is the truncated whole hours and " hours";
\* otherwise, with days = floor(hours/24) and rem = floor(hours mod 24), it is
\* "{days} day(s)" when rem = 0 and "{days} day(s) and {rem} hour(s)" when
\* rem > 0, each noun in the plural exactly when its number is > 1, and the
\* day count is never 0; 5 -> "5 hours", 24 -> "1 day",
\* 36 -> "1 day and 12 hours", 48 -> "2 days".
C6_ReadableDuration ==
    IsReadable
        => LET h == args.hours
               whole == (h - (h % 10)) \div 10
               days == (h - (h % 240)) \div 240
               rem == ((h % 240) - (h % 10)) \div 10
           IN  /\ h < 240 => ret.value = ToString(whole) \o " hours"
               /\ (h >= 240 /\ rem = 0) => ret.value = Counted(days, "day")
               /\ (h >= 240 /\ rem > 0)
                     => ret.value = Counted(days, "day") \o " and "
                                       \o Counted(rem, "hour")
               /\ h >= 240
                     => /\ ret.value # "0 day"
                        /\ \A r \in 1 .. 23 :
                             ret.value # "0 day and " \o Counted(r, "hour")
               /\ h = 50 => ret.value = "5 hours"
               /\ h = 240 => ret.value = "1 day"
               /\ h = 360 => ret.value = "1 day and 12 hours"
               /\ h = 480 => ret.value = "2 days"
               /\ h = 239 => ret.value = "23 hours"
               /\ h = 255 => ret.value = "1 day and 1 hour"

\* 73.5 hours: several days and a single remaining hour
C6_Witness ==
    /\ IsReadable
    /\ args.hours = 735
    /\ ret.value = "3 days and 1 hour"

(* ------------------- claims about the InsightEngine ------------------- *)

IsInsights == op = "get_delivery_insights"

ShippingNote(shipping) ==
    CASE shipping = "Overnight" -> <<overnight_note>>
      [] shipping = "Economy" -> <<economy_note>>
      [] OTHER -> <<>>
LocationNote(location) ==
    CASE location = "Rural" -> <<rural_note>>
      [] location = "Urban" -> <<urban_note>>
      [] OTHER -> <<>>
CategoryNote(category) ==
    CASE category = "Home & Garden" -> <<home_garden_note>>
      [] category = "Books" -> <<books_note>>
      [] OTHER -> <<>>
DurationNote(hours) ==
    CASE hours > 720 -> <<extended_note>>
      [] hours < 240 -> <<fast_note>>
      [] OTHER -> <<>>

\* C5: the result is the shipping note, the location note, the category note
\* and the duration note in that order, at most one of each (duration: above
\* 72 the suggest-express note, below 24 the fast-delivery note, 24 to 72
\* inclusive none); so at most 4 notes, none for (Electronics, Suburban,
\* Standard, 50) and the four of (Books, Urban, Overnight, 10).
C5_InsightsInOrder ==
    IsInsights
        => /\ ret.value = ShippingNote(args.shipping) \o LocationNote(args.location)
                            \o CategoryNote(args.category) \o DurationNote(args.hours)
           /\ Len(ret.value) <= 4
           /\ (/\ args.category = "Electronics" /\ args.location = "Suburban"
               /\ args.shipping = "Standard" /\ args.hours = 500)
                 => ret.value = <<>>
           /\ (/\ args.category = "Books" /\ args.location = "Urban"
               /\ args.shipping = "Overnight" /\ args.hours = 100)
                 => ret.value = <<overnight_note, urban_note, books_note, fast_note>>

\* exactly 72 hours with three other notes: the duration group is silent
C5_Witness ==
    /\ IsInsights
    /\ args.category = "Home & Garden" /\ args.location = "Rural"
    /\ args.shipping = "Economy" /\ args.hours = 720
    /\ ret.value = <<economy_note, rural_note, home_garden_note>>

(* ----------------- claims about the SampleSynthesizer ----------------- *)

IsGenerate == op = "generate_sample_data"

Triple(row) == <<row.category, row.location, row.shipping>>

\* C4: every call completes without error and returns exactly 84 rows in
\* which every combination of the enumerations appears exactly once.
C4_FullCrossProduct ==
    IsGenerate
        => /\ ret.kind = "return"
           /\ Len(sample_data) = 84
           /\ Len(sample_data) = Cardinality(ValidCategories)
                                   * Cardinality(ValidLocations)
                                   * Cardinality(ValidShipping)
           /\ \A c \in ValidCategories, l \in ValidLocations, s \in ValidShipping :
                Cardinality({i \in 1 .. Len(sample_data) :
                               Triple(sample_data[i]) = <<c, l, s>>}) = 1

C4_Witness ==
    /\ IsGenerate
    /\ ret.kind = "return"
    /\ Len(sample_data) = 84
    /\ Triple(sample_data[84]) = <<"Toys", "Rural", "Economy">>

\* C8: the rows are appended in nested order, category outermost, location
\* in the middle, shipping method innermost; two calls hold the same triple
\* at every row index and can differ in the hours column only.
C8_FixedNestedOrder ==
    IsGenerate
        => /\ \A i \in 1 .. Len(sample_data) :
                Triple(sample_data[i])
                  = <<categories[((i - 1) \div 12) + 1],
                      locations[(((i - 1) \div 4) % 3) + 1],
                      shipping_methods[((i - 1) % 4) + 1]>>
           /\ prev_data # <<>>
                 => /\ Len(prev_data) = Len(sample_data)
                    /\ \A i \in 1 .. Len(sample_data) :
                         Triple(prev_data[i]) = Triple(sample_data[i])

\* two consecutive tables that differ in their hours
C8_Witness ==
    /\ IsGenerate
    /\ prev_data # <<>>
    /\ prev_data # sample_data
    /\ Triple(sample_data[2]) = <<"Electronics", "Urban", "Express">>
    /\ Triple(sample_data[5]) = <<"Electronics", "Suburban", "Standard">>

(* ---------------------- claims about the submit path ------------------ *)

IsSubmit == op = "main" /\ args.submitted

NoteIn(note, notes) == \E i \in 1 .. Len(notes) : notes[i] = note

\* C10: when the insight rules are given the hours the estimator returned
\* for the same triple, the suggest-express note appears only with Standard
\* or Economy shipping, never with Express or Overnight.
C10_ExpressNoteOnlyForSlowShipping ==
    (IsSubmit /\ NoteIn(extended_note, ret.insights))
        => args.shipping \in {"Standard", "Economy"}

\* the note is produced for Standard shipping
C10_Witness ==
    /\ IsSubmit
    /\ args.shipping = "Standard"
    /\ ret.predicted_hours > 720
    /\ NoteIn(extended_note, ret.insights)

====
